---- MODULE Spec2Model ----
(***************************************************************************)
(* Model of src/app/page.tsx (GoldPurityChecker): the hydrostatic-weighing *)
(* gold purity calculator.                                                 *)
(*                                                                         *)
(* Numbers.  JavaScript numbers are modelled as exact rationals            *)
(* [n |-> numerator, d |-> denominator > 0], compared by cross             *)
(* multiplication (two records may stand for the same number), so every    *)
(* comparison and rounding below is decided on the exact value.  IEEE-754  *)
(* rounding error and overflow near Number.MAX_VALUE are outside the model.*)
(* NaN (the result of parseFloat on a non-numeric string) is a separate    *)
(* value.                                                                  *)
(*                                                                         *)
(* Strings.  The value of an <input type="number"> is either the empty     *)
(* string, modelled << >>, or a decimal numeral; a numeral is modelled as  *)
(* <<h>>, the numeral with two decimals whose value is h/100 ("10.50" is   *)
(* <<1050>>).  A string built by a template literal is the tuple of its    *)
(* parts; x.toFixed(k) is the integer round(x * 10^k) of its digits.       *)
(* String literals are kept in ASCII: the en dash of the source is written *)
(* "-" and the superscript of g/cm3 as "3".                                *)
(***************************************************************************)
EXTENDS Integers, Sequences, FiniteSets, TLC

VARIABLES airWeight, waterWeight, waterTemp, searchTerm, result,
          locals, firstCall, probe

vars == <<airWeight, waterWeight, waterTemp, searchTerm, result,
          locals, firstCall, probe>>

(***************************************************************************)
(* Bounds of the model.                                                    *)
(***************************************************************************)
\* Form specifications: the weights typed into the form are "", "0.00" and
\* "0.09" .. (0.09 + MaxWeight/100), the smallest weights whose ratios reach
\* the density range of the table.
MaxWeight == 2
\* Calculation specification: weights are -0.01 .. MaxCalcWeight/100.
MaxCalcWeight == 100
\* Function specification: karatFromPercent ranges over k/KGrid, k in 0..24*KGrid.
KGrid == 20

(***************************************************************************)
(* Exact rational arithmetic standing for the JavaScript number operators. *)
(***************************************************************************)
Abs(x) == IF x < 0 THEN -x ELSE x

RECURSIVE GCD(_, _)
GCD(a, b) == IF b = 0 THEN a ELSE GCD(b, a % b)

\* The rational n/d (d > 0).
Q(n, d) == [n |-> n, d |-> d]

NaN == [n |-> 0, d |-> 0]
Null == [null |-> TRUE]
isNaN(x) == x = NaN

Zero == Q(0, 1)
QInt(k) == Q(k, 1)

QEq(a, b) == a.n * b.d = b.n * a.d
QLe(a, b) == a.n * b.d <= b.n * a.d
QLt(a, b) == a.n * b.d < b.n * a.d
QGe(a, b) == QLe(b, a)
QGt(a, b) == QLt(b, a)
QAdd(a, b) == Q(a.n * b.d + b.n * a.d, a.d * b.d)
QSub(a, b) == Q(a.n * b.d - b.n * a.d, a.d * b.d)
\* Factors common to a numerator and the other denominator are cancelled
\* before multiplying, which keeps the products small.
QMul(a, b) ==
  LET g1 == GCD(Abs(a.n), b.d)
      g2 == GCD(Abs(b.n), a.d)
  IN  Q((a.n \div g1) * (b.n \div g2), (a.d \div g2) * (b.d \div g1))
\* a / b for b # 0.
QDiv(a, b) ==
  IF b.n > 0 THEN QMul(a, [n |-> b.d, d |-> b.n])
  ELSE QMul(a, [n |-> -b.d, d |-> -b.n])
QAbs(a) == [n |-> Abs(a.n), d |-> a.d]
QMin(a, b) == IF QLe(a, b) THEN a ELSE b
QMax(a, b) == IF QGe(a, b) THEN a ELSE b
\* Math.round: the nearest integer, ties towards +infinity.
MathRound(a) == (2 * a.n + a.d) \div (2 * a.d)
\* x.toFixed(k) for x >= 0, as the integer made of its digits (pow10 = 10^k).
toFixed(a, pow10) == MathRound(QMul(a, QInt(pow10)))
\* The number written with two decimals, h/100.
Dec2(h) == Q(h, 100)

\* Mutation of clamp: the upper limit is not applied.
clampNoUpper(n, min, max) == QMax(min, n)

(***************************************************************************)
(* function clamp(n, min, max)                                             *)
(***************************************************************************)
clamp(n, min, max) == QMin(max, QMax(min, n))

(***************************************************************************)
(* function parseKaratLabel(karatStr): "20K" -> 20, anything that does not *)
(* match /^(\d+(\.\d+)?)K$/ after trim().toUpperCase() -> null.  A label   *)
(* is the sequence of its characters.                                      *)
(***************************************************************************)
DigitVal ==
  [c \in {"0", "1", "2", "3", "4", "5", "6", "7", "8", "9"} |->
     CASE c = "0" -> 0 [] c = "1" -> 1 [] c = "2" -> 2 [] c = "3" -> 3
       [] c = "4" -> 4 [] c = "5" -> 5 [] c = "6" -> 6 [] c = "7" -> 7
       [] c = "8" -> 8 [] c = "9" -> 9]

IsDigit(c) == c \in DOMAIN DigitVal

AllDigits(s) == Len(s) > 0 /\ \A i \in 1..Len(s) : IsDigit(s[i])

RECURSIVE DigitsValue(_)
DigitsValue(s) ==
  IF Len(s) = 0 THEN 0
  ELSE 10 * DigitsValue(SubSeq(s, 1, Len(s) - 1)) + DigitVal[s[Len(s)]]

RECURSIVE Pow10(_)
Pow10(k) == IF k = 0 THEN 1 ELSE 10 * Pow10(k - 1)

RECURSIVE trim(_)
trim(s) ==
  IF Len(s) = 0 THEN s
  ELSE IF s[1] = " " THEN trim(SubSeq(s, 2, Len(s)))
  ELSE IF s[Len(s)] = " " THEN trim(SubSeq(s, 1, Len(s) - 1))
  ELSE s

toUpperCase(s) == [i \in 1..Len(s) |-> IF s[i] = "k" THEN "K" ELSE s[i]]

parseKaratLabel(karatStr) ==
  LET s == toUpperCase(trim(karatStr))
      len == Len(s)
  IN  IF len < 2 \/ s[len] # "K" THEN Null
      ELSE
        LET body == SubSeq(s, 1, len - 1)
            dots == {i \in 1..(len - 1) : body[i] = "."}
        IN  IF dots = {}
            THEN IF AllDigits(body) THEN QInt(DigitsValue(body)) ELSE Null
            ELSE IF Cardinality(dots) = 1
            THEN
              LET p == CHOOSE i \in dots : TRUE
                  ip == SubSeq(body, 1, p - 1)
                  fp == SubSeq(body, p + 1, len - 1)
              IN  IF AllDigits(ip) /\ AllDigits(fp)
                  THEN QAdd(QInt(DigitsValue(ip)),
                            Q(DigitsValue(fp), Pow10(Len(fp))))
                  ELSE Null
            ELSE Null

\* Mutation of getBadgeForRange: the first threshold is exclusive (avg > 22).
getBadgeForRangeStrict(minK, maxK) ==
  LET avg == QDiv(QAdd(minK, maxK), QInt(2))
  IN  IF QGt(avg, QInt(22))
      THEN [label |-> "Sangat Tinggi", color |-> "bg-emerald-600 text-white",
            note |-> "Mendekati emas murni (umumnya 22K+)."]
      ELSE IF QGe(avg, QInt(18))
      THEN [label |-> "Tinggi", color |-> "bg-green-600 text-white",
            note |-> "Kadar tinggi (umumnya 18K-21K)."]
      ELSE IF QGe(avg, QInt(14))
      THEN [label |-> "Menengah", color |-> "bg-amber-500 text-white",
            note |-> "Kadar menengah (umumnya 14K-17K)."]
      ELSE IF QGe(avg, QInt(10))
      THEN [label |-> "Rendah", color |-> "bg-orange-600 text-white",
            note |-> "Kadar rendah (umumnya 10K-13K)."]
      ELSE [label |-> "Sangat Rendah", color |-> "bg-red-600 text-white",
            note |-> "Kadar sangat rendah (di bawah 10K)."]

(***************************************************************************)
(* function getBadgeForRange(minK, maxK)                                   *)
(***************************************************************************)
getBadgeForRange(minK, maxK) ==
  LET avg == QDiv(QAdd(minK, maxK), QInt(2))
  IN  IF QGe(avg, QInt(22))
      THEN [label |-> "Sangat Tinggi", color |-> "bg-emerald-600 text-white",
            note |-> "Mendekati emas murni (umumnya 22K+)."]
      ELSE IF QGe(avg, QInt(18))
      THEN [label |-> "Tinggi", color |-> "bg-green-600 text-white",
            note |-> "Kadar tinggi (umumnya 18K-21K)."]
      ELSE IF QGe(avg, QInt(14))
      THEN [label |-> "Menengah", color |-> "bg-amber-500 text-white",
            note |-> "Kadar menengah (umumnya 14K-17K)."]
      ELSE IF QGe(avg, QInt(10))
      THEN [label |-> "Rendah", color |-> "bg-orange-600 text-white",
            note |-> "Kadar rendah (umumnya 10K-13K)."]
      ELSE [label |-> "Sangat Rendah", color |-> "bg-red-600 text-white",
            note |-> "Kadar sangat rendah (di bawah 10K)."]

(***************************************************************************)
(* function computeFinalRange({karatFromPercent, karatFromDensity})        *)
(***************************************************************************)
\* Mutation of roundHalf: Math.floor in place of Math.round.
roundHalfDown(x) == Q(QMul(x, QInt(2)).n \div QMul(x, QInt(2)).d, 2)

\* const roundHalf = (x) => Math.round(x * 2) / 2
roundHalf(x) == Q(MathRound(QMul(x, QInt(2))), 2)

\* Mutation of the normalisation: the comparison is inverted.
normalizeRangeInverted(minK, maxK) ==
  IF QLt(minK, maxK) THEN <<maxK, minK>> ELSE <<minK, maxK>>

\* if (minK > maxK) [minK, maxK] = [maxK, minK]
normalizeRange(minK, maxK) ==
  IF QGt(minK, maxK) THEN <<maxK, minK>> ELSE <<minK, maxK>>

computeFinalRange(karatFromPercent, karatFromDensity) ==
  LET pMin == clamp(QSub(karatFromPercent, QInt(1)), QInt(0), QInt(24))
      pMax == clamp(QAdd(karatFromPercent, QInt(1)), QInt(0), QInt(24))
      dMin == clamp(QSub(karatFromDensity, QInt(1)), QInt(0), QInt(24))
      dMax == clamp(QAdd(karatFromDensity, QInt(1)), QInt(0), QInt(24))
      minK1 == IF karatFromDensity # Null THEN QMin(pMin, dMin) ELSE pMin
      maxK1 == IF karatFromDensity # Null THEN QMax(pMax, dMax) ELSE pMax
      r == normalizeRange(roundHalf(minK1), roundHalf(maxK1))
  IN  [minK |-> r[1], maxK |-> r[2], label |-> <<r[1], "K-", r[2], "K">>]

\* Mutation of getDeltaIndicator: the threshold is exclusive (> 2.0).
getDeltaIndicatorStrict(karatFromPercent, karatFromDensity) ==
  IF karatFromDensity = Null
  THEN [delta |-> << >>, label |-> "OK",
        note |-> "Tidak ada pembanding densitas (di luar range tabel)."]
  ELSE
    LET delta == QAbs(QSub(karatFromPercent, karatFromDensity))
        deltaRounded == Q(MathRound(QMul(delta, QInt(10))), 10)
    IN  IF QGt(deltaRounded, QInt(2))
        THEN [delta |-> <<toFixed(deltaRounded, 10), "K">>, label |-> "WASPADA",
              note |-> "Selisih besar. Bisa dipengaruhi batu permata, solder, rongga/berlubang, gelembung air, atau teknik penimbangan."]
        ELSE [delta |-> <<toFixed(deltaRounded, 10), "K">>, label |-> "OK",
              note |-> "Selisih kecil. Hasil cenderung konsisten untuk screening cepat."]

(***************************************************************************)
(* function getDeltaIndicator(karatFromPercent, karatFromDensity)          *)
(***************************************************************************)
getDeltaIndicator(karatFromPercent, karatFromDensity) ==
  IF karatFromDensity = Null
  THEN [delta |-> << >>, label |-> "OK",
        note |-> "Tidak ada pembanding densitas (di luar range tabel)."]
  ELSE
    LET delta == QAbs(QSub(karatFromPercent, karatFromDensity))
        deltaRounded == Q(MathRound(QMul(delta, QInt(10))), 10)
    IN  IF QGe(deltaRounded, QInt(2))
        THEN [delta |-> <<toFixed(deltaRounded, 10), "K">>, label |-> "WASPADA",
              note |-> "Selisih besar. Bisa dipengaruhi batu permata, solder, rongga/berlubang, gelembung air, atau teknik penimbangan."]
        ELSE [delta |-> <<toFixed(deltaRounded, 10), "K">>, label |-> "OK",
              note |-> "Selisih kecil. Hasil cenderung konsisten untuk screening cepat."]

(***************************************************************************)
(* const conversionTable: the 19 rows 24K -> 6K, in the order of the array.*)
(***************************************************************************)
Row(karat, percentTenths, minH, maxH) ==
  [karat |-> karat, percent |-> Q(percentTenths, 10),
   minDensity |-> Dec2(minH), maxDensity |-> Dec2(maxH)]

\* Mutation of conversionTable: the label of the 18K row has lost a digit.
conversionTableTypo ==
  << Row(<<"2", "4", "K">>, 999, 1920, 1932),
     Row(<<"2", "3", "K">>, 958, 1860, 1920),
     Row(<<"2", "2", "K">>, 917, 1770, 1860),
     Row(<<"2", "1", "K">>, 875, 1690, 1770),
     Row(<<"2", "0", "K">>, 833, 1620, 1690),
     Row(<<"1", "9", "K">>, 792, 1560, 1620),
     Row(<<"8", "K">>, 750, 1520, 1560),
     Row(<<"1", "7", "K">>, 708, 1470, 1520),
     Row(<<"1", "6", "K">>, 667, 1420, 1470),
     Row(<<"1", "5", "K">>, 625, 1370, 1420),
     Row(<<"1", "4", "K">>, 583, 1300, 1370),
     Row(<<"1", "3", "K">>, 542, 1260, 1300),
     Row(<<"1", "2", "K">>, 500, 1200, 1260),
     Row(<<"1", "1", "K">>, 458, 1160, 1200),
     Row(<<"1", "0", "K">>, 417, 1130, 1160),
     Row(<<"9", "K">>, 375, 1090, 1130),
     Row(<<"8", "K">>, 333, 1050, 1090),
     Row(<<"7", "K">>, 292, 1010, 1050),
     Row(<<"6", "K">>, 250, 970, 1010) >>

conversionTable ==
  << Row(<<"2", "4", "K">>, 999, 1920, 1932),
     Row(<<"2", "3", "K">>, 958, 1860, 1920),
     Row(<<"2", "2", "K">>, 917, 1770, 1860),
     Row(<<"2", "1", "K">>, 875, 1690, 1770),
     Row(<<"2", "0", "K">>, 833, 1620, 1690),
     Row(<<"1", "9", "K">>, 792, 1560, 1620),
     Row(<<"1", "8", "K">>, 750, 1520, 1560),
     Row(<<"1", "7", "K">>, 708, 1470, 1520),
     Row(<<"1", "6", "K">>, 667, 1420, 1470),
     Row(<<"1", "5", "K">>, 625, 1370, 1420),
     Row(<<"1", "4", "K">>, 583, 1300, 1370),
     Row(<<"1", "3", "K">>, 542, 1260, 1300),
     Row(<<"1", "2", "K">>, 500, 1200, 1260),
     Row(<<"1", "1", "K">>, 458, 1160, 1200),
     Row(<<"1", "0", "K">>, 417, 1130, 1160),
     Row(<<"9", "K">>, 375, 1090, 1130),
     Row(<<"8", "K">>, 333, 1050, 1090),
     Row(<<"7", "K">>, 292, 1010, 1050),
     Row(<<"6", "K">>, 250, 970, 1010) >>

(***************************************************************************)
(* The steps of calculatePurity.                                           *)
(***************************************************************************)
\* Number.parseFloat on the value of a number input.
parseFloat(s) == IF Len(s) = 0 THEN NaN ELSE Dec2(s[1])

\* if (Number.isNaN(air) || Number.isNaN(water) || air <= 0 || water <= 0)
inputRejected(air, water) ==
  isNaN(air) \/ isNaN(water) \/ QLe(air, Zero) \/ QLe(water, Zero)

\* Mutation of the order check: air < water, so equal weights pass.
orderRejectedStrict(air, water) == QLt(air, water)

\* if (air <= water)
orderRejected(air, water) == QLe(air, water)

\* let waterDensity = 1.0; if (!isNaN(temp)) { <10 -> 0.9997; >30 -> 0.9957 }
waterDensityFor(temp) ==
  IF ~isNaN(temp)
  THEN IF QLt(temp, QInt(10)) THEN Q(9997, 10000)
       ELSE IF QGt(temp, QInt(30)) THEN Q(9957, 10000)
       ELSE QInt(1)
  ELSE QInt(1)

\* Mutation of the volume: the operands of the subtraction are swapped.
volumeOfSwapped(air, water, waterDensity) == QDiv(QSub(water, air), waterDensity)

\* const volume = (air - water) / waterDensity
volumeOf(air, water, waterDensity) == QDiv(QSub(air, water), waterDensity)

\* if (volume <= 0)
volumeRejected(volume) == QLe(volume, Zero)

\* const density = air / volume
densityOf(air, volume) == QDiv(air, volume)

\* const minD = 9.7; const maxD = 19.32;
\* const goldPercent = clamp(((density - minD) / (maxD - minD)) * 100, 0, 100)
goldPercentOf(density) ==
  LET minD == Q(97, 10)
      maxD == Q(1932, 100)
  IN  clamp(QMul(QDiv(QSub(density, minD), QSub(maxD, minD)), QInt(100)),
            QInt(0), QInt(100))

\* const karatFromPercentNum = (goldPercent * 24) / 100
karatFromPercentOf(goldPercent) == QDiv(QMul(goldPercent, QInt(24)), QInt(100))

\* Mutation of the band test: both comparisons are strict, so a density on a
\* bound of a band does not match it.
rowMatchesStrict(row, density) ==
  QGt(density, row.minDensity) /\ QLt(density, row.maxDensity)

\* density >= row.minDensity && density <= row.maxDensity
rowMatches(row, density) ==
  QGe(density, row.minDensity) /\ QLe(density, row.maxDensity)

\* Mutation of the loop: the break is missing, so the last matching row wins.
scanFromNoBreak(table, i, density) ==
  LET m == {k \in i..Len(table) :
              QGe(density, table[k].minDensity) /\ QLe(density, table[k].maxDensity)}
  IN  IF m = {} THEN 0 ELSE CHOOSE k \in m : \A j \in m : j <= k

\* for (const row of conversionTable) { if (match) { ...; break; } }
\* The index of the row the loop stops at, 0 when it runs to the end.
RECURSIVE scanFrom(_, _, _)
scanFrom(table, i, density) ==
  IF i > Len(table) THEN 0
  ELSE IF rowMatches(table[i], density) THEN i
  ELSE scanFrom(table, i + 1, density)

\* Mutation of the lookup: the loop runs over filteredTable, the rows the
\* search box keeps (all rows for "", the 18K row alone for "18K").
findRowInFiltered(density) ==
  LET i == scanFrom(conversionTable, 1, density)
  IN  IF searchTerm = "" THEN i
      ELSE IF i # 0 /\ conversionTable[i].karat = <<"1", "8", "K">> THEN i
      ELSE 0

findRow(density) == scanFrom(conversionTable, 1, density)

NoLocals ==
  [alert |-> "", waterDensity |-> Null, volume |-> Null, density |-> Null,
   goldPercent |-> Null, karatFromPercentNum |-> Null,
   karatFromDensity |-> << >>, karatFromDensityNum |-> Null, final |-> Null]

AlertInput == "Masukkan angka yang valid untuk berat di udara dan berat di air."
AlertOrder == "Masukkan nilai yang valid. Berat di udara harus lebih besar dari berat di air."
AlertVolume == "Perhitungan gagal: volume <= 0. Cek ulang input & teknik penimbangan."

\* One run of the body of calculatePurity on the three form strings:
\* [locals |-> the values of its local constants, the alert shown ("" for none),
\*  result |-> the record handed to setResult, Null when it returned early].
purity(airStr, waterStr, tempStr) ==
  LET air == parseFloat(airStr)
      water == parseFloat(waterStr)
  IN
  IF inputRejected(air, water)
  THEN [locals |-> [NoLocals EXCEPT !.alert = AlertInput], result |-> Null]
  ELSE IF orderRejected(air, water)
  THEN [locals |-> [NoLocals EXCEPT !.alert = AlertOrder], result |-> Null]
  ELSE
    LET temp == parseFloat(tempStr)
        waterDensity == waterDensityFor(temp)
        volume == volumeOf(air, water, waterDensity)
    IN
    IF volumeRejected(volume)
    THEN [locals |-> [NoLocals EXCEPT !.alert = AlertVolume,
                                      !.waterDensity = waterDensity,
                                      !.volume = volume],
          result |-> Null]
    ELSE
      LET density == densityOf(air, volume)
          goldPercent == goldPercentOf(density)
          karatFromPercentNum == karatFromPercentOf(goldPercent)
          i == findRow(density)
          karatFromDensity ==
            IF i = 0 THEN <<"?">> ELSE conversionTable[i].karat
          karatRangeDensity ==
            IF i = 0 THEN << >>
            ELSE <<toFixed(conversionTable[i].minDensity, 100), " - ",
                   toFixed(conversionTable[i].maxDensity, 100), " g/cm3">>
          karatFromDensityNum == parseKaratLabel(karatFromDensity)
          final == computeFinalRange(karatFromPercentNum, karatFromDensityNum)
          badge == getBadgeForRange(final.minK, final.maxK)
          delta == getDeltaIndicator(karatFromPercentNum, karatFromDensityNum)
          conclusionText ==
            <<"Kesimpulan: perkiraan kadar emas berada di kisaran ",
              final.label, " (", badge.label, "). ", badge.note>>
      IN  [locals |->
             [alert |-> "", waterDensity |-> waterDensity, volume |-> volume,
              density |-> density, goldPercent |-> goldPercent,
              karatFromPercentNum |-> karatFromPercentNum,
              karatFromDensity |-> karatFromDensity,
              karatFromDensityNum |-> karatFromDensityNum, final |-> final],
           result |->
             [density |-> toFixed(density, 100),
              goldPercent |-> toFixed(goldPercent, 10),
              karatFromPercent |-> <<toFixed(karatFromPercentNum, 10), "K">>,
              karatFromDensity |-> karatFromDensity,
              karatRangeDensity |-> karatRangeDensity,
              finalRange |-> final.label,
              badgeLabel |-> badge.label,
              badgeColor |-> badge.color,
              conclusionText |-> conclusionText,
              deltaKarat |-> delta.delta,
              deltaLabel |-> delta.label,
              deltaNote |-> delta.note]]

\* setResult({...}): the stored result is replaced by the new record.
setResult(r) == r

(***************************************************************************)
(* State.  airWeight, waterWeight, waterTemp, searchTerm, result are the   *)
(* component's useState cells.  locals holds the local constants of the    *)
(* last run of calculatePurity and the alert it showed.  firstCall is a    *)
(* history variable, written only where runs are recorded: the form        *)
(* strings and the stored result of the first run that stored a result,    *)
(* and, in repeat, what the latest later run on the same three strings     *)
(* stored, with whether the result stored before that run was another one  *)
(* and the search term at that run.  probe holds the arguments and return  *)
(* values of the three helper functions when they are exercised on their   *)
(* own.                                                                    *)
(***************************************************************************)
TempStrings == {<< >>} \cup {<<h>> : h \in {999, 1000, 2000, 3000, 3001}}
FormWeightStrings ==
  {<< >>, <<0>>} \cup {<<h>> : h \in 9..(9 + MaxWeight)}
CalcWeightStrings == {<< >>} \cup {<<h>> : h \in (-1)..MaxCalcWeight}
SearchTerms == {"", "18K"}

\* The body of calculatePurity on the form's state.
runCalculatePurity ==
  LET c == purity(airWeight, waterWeight, waterTemp)
  IN  /\ locals' = c.locals
      /\ result' = IF c.result = Null THEN result ELSE setResult(c.result)
      /\ UNCHANGED <<airWeight, waterWeight, waterTemp, searchTerm, probe>>

calculatePurity ==
  /\ runCalculatePurity
  /\ UNCHANGED firstCall

\* calculatePurity with the run recorded in firstCall.
calculatePurityRecorded ==
  /\ runCalculatePurity
  /\ firstCall' =
       IF locals'.alert # "" THEN firstCall
       ELSE IF firstCall = Null
       THEN [airWeight |-> airWeight, waterWeight |-> waterWeight,
             waterTemp |-> waterTemp, result |-> result', repeat |-> Null]
       ELSE IF /\ firstCall.airWeight = airWeight
               /\ firstCall.waterWeight = waterWeight
               /\ firstCall.waterTemp = waterTemp
       THEN [firstCall EXCEPT !.repeat =
               [result |-> result',
                otherPrior |-> result # firstCall.result,
                searchTerm |-> searchTerm]]
       ELSE firstCall

setAirWeight(v) ==
  /\ airWeight' = v
  /\ UNCHANGED <<waterWeight, waterTemp, searchTerm, result, locals, firstCall, probe>>

setWaterWeight(v) ==
  /\ waterWeight' = v
  /\ UNCHANGED <<airWeight, waterTemp, searchTerm, result, locals, firstCall, probe>>

setWaterTemp(v) ==
  /\ waterTemp' = v
  /\ UNCHANGED <<airWeight, waterWeight, searchTerm, result, locals, firstCall, probe>>

setSearchTerm(v) ==
  /\ searchTerm' = v
  /\ UNCHANGED <<airWeight, waterWeight, waterTemp, result, locals, firstCall, probe>>

\* The component after its first render.
Init ==
  /\ airWeight = << >>
  /\ waterWeight = << >>
  /\ waterTemp = <<2000>>
  /\ searchTerm = ""
  /\ result = Null
  /\ locals = NoLocals
  /\ firstCall = Null
  /\ probe = Null

Next ==
  \/ \E v \in FormWeightStrings : setAirWeight(v)
  \/ \E v \in FormWeightStrings : setWaterWeight(v)
  \/ \E v \in TempStrings : setWaterTemp(v)
  \/ \E v \in SearchTerms : setSearchTerm(v)
  \/ calculatePurity

Spec == Init /\ [][Next]_vars

(***************************************************************************)
(* The calculation on its own: the form holds any three strings of the     *)
(* larger input set and the button is clicked.                             *)
(***************************************************************************)
InitCalc ==
  /\ airWeight \in CalcWeightStrings
  /\ waterWeight \in CalcWeightStrings
  /\ waterTemp \in TempStrings
  /\ searchTerm = ""
  /\ result = Null
  /\ locals = NoLocals
  /\ firstCall = Null
  /\ probe = Null

NextCalc == calculatePurity

SpecCalc == InitCalc /\ [][NextCalc]_vars

(***************************************************************************)
(* Repeated calculations: the two weights are whatever the form holds, the *)
(* temperature and the search term are edited freely, the button is        *)
(* clicked any number of times and the runs are recorded.                  *)
(***************************************************************************)
InitRepeat ==
  /\ airWeight \in FormWeightStrings
  /\ waterWeight \in FormWeightStrings
  /\ waterTemp = <<2000>>
  /\ searchTerm = ""
  /\ result = Null
  /\ locals = NoLocals
  /\ firstCall = Null
  /\ probe = Null

NextRepeat ==
  \/ \E v \in TempStrings : setWaterTemp(v)
  \/ \E v \in SearchTerms : setSearchTerm(v)
  \/ calculatePurityRecorded

SpecRepeat == InitRepeat /\ [][NextRepeat]_vars

(***************************************************************************)
(* The helper functions on their own: computeFinalRange and                *)
(* getDeltaIndicator on any karatFromPercent of the grid in [0,24] and any *)
(* karatFromDensity (null or a karat of the table), getBadgeForRange on    *)
(* the range computeFinalRange returned.                                   *)
(***************************************************************************)
KaratFromPercentValues == {Q(k, KGrid) : k \in 0..(24 * KGrid)}
KaratFromDensityValues ==
  {Null} \cup {parseKaratLabel(conversionTable[i].karat) :
                 i \in 1..Len(conversionTable)}

InitFn ==
  /\ airWeight = << >>
  /\ waterWeight = << >>
  /\ waterTemp = <<2000>>
  /\ searchTerm = ""
  /\ result = Null
  /\ locals = NoLocals
  /\ firstCall = Null
  /\ probe \in [karatFromPercent : KaratFromPercentValues,
                karatFromDensity : KaratFromDensityValues,
                final : {Null}, badge : {Null}, delta : {Null}]

callComputeFinalRange ==
  /\ probe.final = Null
  /\ probe' = [probe EXCEPT !.final =
                 computeFinalRange(probe.karatFromPercent, probe.karatFromDensity)]
  /\ UNCHANGED <<airWeight, waterWeight, waterTemp, searchTerm, result, locals, firstCall>>

callGetBadgeForRange ==
  /\ probe.final # Null
  /\ probe.badge = Null
  /\ probe' = [probe EXCEPT !.badge =
                 getBadgeForRange(probe.final.minK, probe.final.maxK)]
  /\ UNCHANGED <<airWeight, waterWeight, waterTemp, searchTerm, result, locals, firstCall>>

callGetDeltaIndicator ==
  /\ probe.delta = Null
  /\ probe' = [probe EXCEPT !.delta =
                 getDeltaIndicator(probe.karatFromPercent, probe.karatFromDensity)]
  /\ UNCHANGED <<airWeight, waterWeight, waterTemp, searchTerm, result, locals, firstCall>>

NextFn ==
  \/ callComputeFinalRange
  \/ callGetBadgeForRange
  \/ callGetDeltaIndicator

SpecFn == InitFn /\ [][NextFn]_vars

(***************************************************************************)
(* Properties.                                                             *)
(***************************************************************************)
\* calculatePurity has run (every run leaves an alert or computed locals).
Called == locals # NoLocals

\* The form holds weights that pass validation: both numeric, both > 0,
\* air > water.
ValidInput ==
  /\ Len(airWeight) = 1 /\ Len(waterWeight) = 1
  /\ airWeight[1] > 0 /\ waterWeight[1] > 0
  /\ airWeight[1] > waterWeight[1]

\* The same number in lowest terms, and equality of two numbers decided on it.
QNorm(a) ==
  LET g == GCD(Abs(a.n), a.d) IN [n |-> a.n \div g, d |-> a.d \div g]
QSame(a, b) == QNorm(a) = QNorm(b)

\* [lo, hi] is inside [minK, maxK].
Covers(minK, maxK, lo, hi) == QLe(minK, lo) /\ QGe(maxK, hi)

\* k - 1 and k + 1, each limited to [0, 24].
PaddedLo(k) == IF k.n - k.d < 0 THEN QInt(0) ELSE Q(k.n - k.d, k.d)
PaddedHi(k) == IF k.n + k.d > 24 * k.d THEN QInt(24) ELSE Q(k.n + k.d, k.d)

\* C1: for every input that passes validation, whether or not a band of the
\* table matched, the range computeFinalRange returned has
\* finalRangeMin <= finalRangeMax.
C1_FinalRangeOrdered ==
  (Called /\ ValidInput) =>
    /\ locals.final # Null
    /\ QLe(locals.final.minK, locals.final.maxK)
    /\ result # Null
    /\ result.finalRange = <<locals.final.minK, "K-", locals.final.maxK, "K">>

\* C1 witness: a valid input with no matching band and a final range.
C1_Witness ==
  /\ Called /\ ValidInput
  /\ locals.karatFromDensityNum = Null
  /\ locals.final # Null
  /\ QLt(locals.final.minK, locals.final.maxK)

\* C3: for every input that passes validation, goldPercent is in [0,100] and
\* karatFromPercent = goldPercent*24/100 is in [0,24]; a density below 9.7
\* gives goldPercent 0 and a density above 19.32 gives goldPercent 100.
C3_PercentAndKaratBounded ==
  (Called /\ ValidInput) =>
    /\ locals.goldPercent # Null
    /\ QLe(QInt(0), locals.goldPercent) /\ QLe(locals.goldPercent, QInt(100))
    /\ QSame(QMul(locals.karatFromPercentNum, QInt(100)),
             QMul(locals.goldPercent, QInt(24)))
    /\ QLe(QInt(0), locals.karatFromPercentNum)
    /\ QLe(locals.karatFromPercentNum, QInt(24))
    /\ QLt(locals.density, Q(97, 10)) => locals.goldPercent.n = 0
    /\ QGt(locals.density, Q(1932, 100)) => QEq(locals.goldPercent, QInt(100))

\* C3 witness: a valid input whose density is above 19.32, with goldPercent
\* 100 and karatFromPercent 24.
C3_Witness ==
  /\ Called /\ ValidInput
  /\ locals.density # Null
  /\ QGt(locals.density, Q(1932, 100))
  /\ QEq(locals.goldPercent, QInt(100))
  /\ QEq(locals.karatFromPercentNum, QInt(24))

InvalidInput ==
  \/ Len(airWeight) = 0 \/ Len(waterWeight) = 0
  \/ airWeight[1] <= 0 \/ waterWeight[1] <= 0
  \/ airWeight[1] <= waterWeight[1]

CalcResultFields ==
  {"density", "goldPercent", "karatFromPercent", "karatFromDensity",
   "karatRangeDensity", "finalRange", "badgeLabel", "badgeColor",
   "conclusionText", "deltaKarat", "deltaLabel", "deltaNote"}

\* C2: a run of calculatePurity on weights that fail validation (non-numeric,
\* <= 0, or air <= water, air = water included) fails before any density
\* computation and leaves the stored result exactly as it was (null or the
\* previous full record).
C2_InvalidInputKeepsResult ==
  [][ (InvalidInput /\ UNCHANGED <<airWeight, waterWeight, waterTemp, searchTerm>>)
        => /\ result' = result
           /\ result' = Null \/ DOMAIN result' = CalcResultFields
           /\ locals' # locals =>
                /\ locals'.alert \in {AlertInput, AlertOrder}
                /\ locals'.volume = Null
                /\ locals'.density = Null ]_vars

\* C2 witness: a full result is stored, then calculatePurity has run on equal
\* weights: it showed the order alert, computed no density, and the result is
\* still stored.
C2_Witness ==
  /\ result # Null
  /\ DOMAIN result = CalcResultFields
  /\ Len(airWeight) = 1 /\ airWeight[1] > 0
  /\ airWeight = waterWeight
  /\ locals.alert = AlertOrder
  /\ locals.density = Null

\* C5 (as claimed): the final range contains [karatFromPercent-1,
\* karatFromPercent+1] limited to [0,24] and, when karatFromDensity is
\* present, [karatFromDensity-1, karatFromDensity+1] limited to [0,24].
C5_RangeCoversBoth ==
  probe.final # Null =>
    /\ Covers(probe.final.minK, probe.final.maxK,
              PaddedLo(probe.karatFromPercent), PaddedHi(probe.karatFromPercent))
    /\ probe.karatFromDensity # Null =>
         Covers(probe.final.minK, probe.final.maxK,
                PaddedLo(probe.karatFromDensity), PaddedHi(probe.karatFromDensity))

\* C5 (amended): the final range contains the density interval
\* [karatFromDensity-1, karatFromDensity+1] limited to [0,24] when
\* karatFromDensity is present, and contains the percent interval
\* [karatFromPercent-1, karatFromPercent+1] limited to [0,24] up to the
\* rounding of its bounds to the nearest half karat: finalRangeMin is at most
\* 0.25 above its lower end and finalRangeMax less than 0.25 below its upper
\* end.
C5_RangeCoversUpToRounding ==
  probe.final # Null =>
    /\ QLe(probe.final.minK,
           QAdd(PaddedLo(probe.karatFromPercent), Q(1, 4)))
    /\ QGt(probe.final.maxK,
           QSub(PaddedHi(probe.karatFromPercent), Q(1, 4)))
    /\ probe.karatFromDensity # Null =>
         Covers(probe.final.minK, probe.final.maxK,
                PaddedLo(probe.karatFromDensity), PaddedHi(probe.karatFromDensity))

\* C5 witness: both estimates are present and disagree (the percent interval
\* lies wholly below the density interval); the final range ends at the
\* density interval's upper end and starts at the percent interval's lower
\* end rounded up, so that lower end lies just outside it.
C5_Witness ==
  /\ probe.final # Null
  /\ probe.karatFromDensity # Null
  /\ QLt(PaddedLo(probe.karatFromPercent), probe.final.minK)
  /\ QEq(probe.final.maxK, PaddedHi(probe.karatFromDensity))
  /\ QLt(PaddedHi(probe.karatFromPercent), PaddedLo(probe.karatFromDensity))

\* The karat of the band the lookup matches for density d, Null for none.
MatchedKarat(d) ==
  LET i == findRow(d)
  IN  IF i = 0 THEN Null ELSE parseKaratLabel(conversionTable[i].karat)

\* One density on every bound of every band and one strictly inside every
\* band, each with the karat the lookup matches for it.
DensityProbes ==
  LET ds == UNION {{conversionTable[i].minDensity, conversionTable[i].maxDensity,
                    QNorm(QDiv(QAdd(conversionTable[i].minDensity,
                                    conversionTable[i].maxDensity), QInt(2)))} :
                   i \in 1..Len(conversionTable)}
  IN  {[density |-> d, karat |-> MatchedKarat(d)] : d \in ds}

\* C6: the table lookup is monotonic: of two densities that both match a
\* band, the larger one never matches a band of lower karat.
C6_LookupMonotonic ==
  (Called /\ locals.karatFromDensityNum # Null) =>
    \A p \in DensityProbes :
      p.karat # Null =>
        /\ QLe(p.density, locals.density) =>
             QLe(p.karat, locals.karatFromDensityNum)
        /\ QLe(locals.density, p.density) =>
             QLe(locals.karatFromDensityNum, p.karat)

\* C6 witness: a measured density matched a band, and a smaller density
\* matches a band of strictly lower karat.
C6_Witness ==
  /\ Called
  /\ locals.karatFromDensityNum # Null
  /\ \E p \in DensityProbes :
       /\ p.karat # Null
       /\ QLt(p.density, locals.density)
       /\ QLt(p.karat, locals.karatFromDensityNum)

\* C7: the lookup reports the first band, in the table's descending-karat
\* order, with minDensity <= density <= maxDensity; a density equal to the
\* bound two adjacent bands share is reported as the higher-karat band.
C7_FirstMatchingBand ==
  (Called /\ ValidInput) =>
    /\ \A i \in 1..Len(conversionTable) :
         ( /\ QGe(locals.density, conversionTable[i].minDensity)
           /\ QLe(locals.density, conversionTable[i].maxDensity)
           /\ \A j \in 1..(i - 1) :
                ~ ( /\ QGe(locals.density, conversionTable[j].minDensity)
                    /\ QLe(locals.density, conversionTable[j].maxDensity) ) )
         => /\ locals.karatFromDensity = conversionTable[i].karat
            /\ result.karatFromDensity = conversionTable[i].karat
    /\ \A i \in 1..(Len(conversionTable) - 1) :
         ( /\ QEq(locals.density, conversionTable[i].minDensity)
           /\ QEq(locals.density, conversionTable[i + 1].maxDensity) )
         => /\ locals.karatFromDensity = conversionTable[i].karat
            /\ QLt(parseKaratLabel(conversionTable[i + 1].karat),
                   locals.karatFromDensityNum)

\* C7 witness: the measured density is exactly 15.20, the bound the 18K and
\* 17K bands share, and the lookup reported 18K.
C7_Witness ==
  /\ Called /\ ValidInput
  /\ locals.density # Null
  /\ QEq(locals.density, Dec2(1520))
  /\ locals.karatFromDensity = <<"1", "8", "K">>
  /\ result.karatFromDensity = <<"1", "8", "K">>

\* C8: getDeltaIndicator flags WASPADA exactly when karatFromDensity is
\* present and delta = round(|karatFromPercent - karatFromDensity| * 10)/10
\* is >= 2.0 (2.0 included), flags OK when delta < 2.0, and flags OK with no
\* delta value when karatFromDensity is absent.
C8_DeltaFlag ==
  probe.delta # Null =>
    IF probe.karatFromDensity = Null
    THEN probe.delta.label = "OK" /\ probe.delta.delta = << >>
    ELSE
      LET tenths ==
            MathRound(QMul(QAbs(QSub(probe.karatFromPercent,
                                     probe.karatFromDensity)), QInt(10)))
      IN  /\ probe.delta.label = "WASPADA" <=> tenths >= 20
          /\ probe.delta.label = "OK" <=> tenths < 20
          /\ probe.delta.delta = <<tenths, "K">>

\* C8 witness: the two estimates differ by exactly 2.0 and the flag is
\* WASPADA.
C8_Witness ==
  /\ probe.delta # Null
  /\ probe.karatFromDensity # Null
  /\ QEq(QAbs(QSub(probe.karatFromPercent, probe.karatFromDensity)), QInt(2))
  /\ probe.delta.label = "WASPADA"
  /\ probe.delta.delta = <<20, "K">>

C10_BadgeByMidpoint ==
  probe.badge # Null =>
    LET sum == QAdd(probe.final.minK, probe.final.maxK)
        label == probe.badge.label
    IN  /\ label \in {"Sangat Tinggi", "Tinggi", "Menengah", "Rendah",
                      "Sangat Rendah"}
        /\ label = "Sangat Tinggi" <=> QGe(sum, QInt(44))
        /\ label = "Tinggi" <=> (QGe(sum, QInt(36)) /\ QLt(sum, QInt(44)))
        /\ label = "Menengah" <=> (QGe(sum, QInt(28)) /\ QLt(sum, QInt(36)))
        /\ label = "Rendah" <=> (QGe(sum, QInt(20)) /\ QLt(sum, QInt(28)))
        /\ label = "Sangat Rendah" <=> QLt(sum, QInt(20))

\* C10 witness: the midpoint of the reconciled range is exactly 22 and the
\* badge is Sangat Tinggi.
C10_Witness ==
  /\ probe.badge # Null
  /\ QEq(QAdd(probe.final.minK, probe.final.maxK), QInt(44))
  /\ probe.badge.label = "Sangat Tinggi"

\* The lookup of the last run found no band: karatFromDensity is "?", which
\* parseKaratLabel turns into null, and the density range string is empty.
Indeterminate ==
  /\ locals.karatFromDensity = <<"?">>
  /\ locals.karatFromDensityNum = Null
  /\ result.karatFromDensity = <<"?">>
  /\ result.karatRangeDensity = << >>

\* The lookup of the last run found a band of karat 6..24 and reported its
\* label and its density range.
DeterminateKarat ==
  /\ locals.karatFromDensity # <<"?">>
  /\ locals.karatFromDensityNum # Null
  /\ QLe(QInt(6), locals.karatFromDensityNum)
  /\ QLe(locals.karatFromDensityNum, QInt(24))
  /\ result.karatFromDensity = locals.karatFromDensity
  /\ result.karatRangeDensity # << >>

\* C11: the reference table has no density gap: the maxDensity of each band
\* equals the minDensity of the next higher-karat band, so the lookup is
\* indeterminate ("?" parsed to null, empty range string) exactly when
\* density < 9.70 or density > 19.32, and every density in [9.70, 19.32]
\* yields a karat between 6 and 24.
C11_NoDensityGap ==
  (Called /\ ValidInput) =>
    /\ \A i \in 1..(Len(conversionTable) - 1) :
         QEq(conversionTable[i + 1].maxDensity, conversionTable[i].minDensity)
    /\ Indeterminate <=>
         (QLt(locals.density, Dec2(970)) \/ QGt(locals.density, Dec2(1932)))
    /\ (QGe(locals.density, Dec2(970)) /\ QLe(locals.density, Dec2(1932)))
         => DeterminateKarat

\* C11 witness: the measured density is exactly 9.70, the lowest density of
\* the table, and the lookup reported 6K with its density range.
C11_Witness ==
  /\ Called /\ ValidInput
  /\ locals.density # Null
  /\ QEq(locals.density, Dec2(970))
  /\ locals.karatFromDensity = <<"6", "K">>
  /\ DeterminateKarat

====
